---- MODULE Spec2Model ----
(***************************************************************************)
(* pullcord: incremental archival of a guild's metadata and channel       *)
(* history into append-only tab-separated log files.                      *)
(*                                                                         *)
(* The model follows logpull.Pull, pullGuild and pullChannel              *)
(* (logpull/main.go) and the row encoder logentry.Make / logentry.Type.   *)
(* The packages logutil (GuildCache, LastMessageID, Equals) and           *)
(* logformat (Write) are modelled from their documented contracts.        *)
(* A row is the sequence <<time, fetch type, op, entity type, fields..>>. *)
(* Ids of messages, members and reaction users are naturals ("0" is the   *)
(* beginning cursor, user 0 is the empty user id); the other ids are      *)
(* strings.  Only the fields that tell two snapshots apart are kept.      *)
(*                                                                         *)
(* Spec is the program with fetch, download, open and mkdir errors and    *)
(* kills; SpecStale adds pages that echo the cursor message, SpecWrite    *)
(* row writes that fail, SpecLive weak fairness of the steps of           *)
(* pullChannel, and SpecEncode applies logentry.Make on its own.          *)
(***************************************************************************)
EXTENDS Integers, Sequences, FiniteSets, TLC

\* ---------------------------------------------------------------- bounds
MaxRuns == 2        \* process invocations in one behaviour
MaxMsg == 3         \* newest message id a channel can hold
MaxFaults == 1      \* injected errors and kills in one behaviour
MaxStale == 1       \* pages that may echo the cursor message (SpecStale)
MaxWriteFail == 1   \* row writes that may fail (SpecWrite)
MaxType == 21       \* largest sub-enum value handed to the encoder (SpecEncode)
PageLimit == 2      \* messages per page (100 in the source)
MemberLimit == 1    \* members per batch (1000 in the source)
ReactLimit == 2     \* reaction users per request (100 in the source)

\* ------------------------------------------------------------- constants
HTime == 0
HFetchType == 1
HOp == 2
HType == 3
HID == 4

Guilds == {"g1", "g2"}
Channels == {"c1", "c2", "c3"}
GuildOf(c) == IF c = "c3" THEN "g2" ELSE "g1"
\* the channels in the order the caller passes them to Pull in every run
Order == <<"c1", "c3", "c2">>
Files == Guilds \cup Channels
Nil == <<>>

VARIABLES
    \* remote state
    remoteMsgs,     \* channel -> newest message id (messages are 1..n)
    roleColor,      \* colour of role R1 of guild g1
    owAllow,        \* channel -> allow bitmask of its @everyone overwrite
    react,          \* [count, users]: the reaction carried by message 3
    staleLeft,      \* pages that may still echo the cursor message
    wfLeft,         \* row writes that may still fail
    \* file system
    dirs,           \* guild directories that exist
    exists,         \* log files that exist
    files,          \* log file -> sequence of rows
    \* the process
    run,            \* number of the current process invocation
    fetchedGuilds,  \* run-scoped set of guild ids
    todo,           \* channels the caller has not passed to Pull yet
    pc,             \* position of the single thread of control
    cur,            \* channel of the Pull in progress
    cache,          \* EntryCache handed to pullGuild
    mafter,         \* member cursor of pullGuild
    retries,        \* failed member batch requests of this guild sync
    batch,          \* member batch being written
    after,          \* message cursor of pullChannel
    msgs,           \* page being written, newest first
    i,              \* index into msgs of the message being written
    work,           \* embed/attachment/reaction items left for msgs[i]
    \* observation
    snap,           \* files as they were when this run started
    faults,         \* fetch, download, open and mkdir errors injected so far
    dlFaults,       \* kind of media -> downloads that failed so far
    kills,          \* times the process was stopped in the middle of a channel pull
    drift,          \* the remote state changed between two runs
    syncs,          \* guild -> times pullGuild was started in this run
    cacheFailed,    \* guilds whose cache reconstruction failed in this run
    skipped,        \* channels whose Pull hit the cache failure in this run
    gfail,          \* guilds whose metadata fetch failed in this run
    start,          \* cursor pullChannel was called with
    len0,           \* length of the channel file when pullChannel opened it
    wfailLen,       \* length of the channel file when a write of this pull
                    \* first failed, -1 while none has
    \* the encoder on its own
    enc             \* [v, panicked, row]: the last entity given to Make and
                    \* what became of the call

remote == <<remoteMsgs, roleColor, owAllow, react>>
fs == <<dirs, exists, files>>
guildLocals == <<cache, mafter, retries, batch>>
chanLocals == <<after, msgs, i, work, start, len0, wfailLen>>
obs == <<snap, faults, dlFaults, kills, drift, syncs, cacheFailed, skipped, gfail>>
vars == <<remote, staleLeft, wfLeft, wfLeft, fs, run, fetchedGuilds, todo, pc, cur,
          guildLocals, chanLocals, obs, enc>>

\* ------------------------------------------------------------ row encoder
\* The sub-enum values are the numbers discordgo gives its constants.
Panic == "panic"

formatMessageType(t) ==
    CASE t = 0 -> ""
      [] t = 1 -> "recipient_add"
      [] t = 2 -> "recipient_remove"
      [] t = 3 -> "call"
      [] t = 4 -> "channel_name_change"
      [] t = 5 -> "channel_icon_change"
      [] t = 6 -> "channel_pinned_message"
      [] t = 7 -> "guild_member_join"
      [] t = 19 -> "reply"
      [] t = 20 -> "application_command"
      [] OTHER -> "unknown-" \o ToString(t)

formatChannelType(t) ==
    CASE t = 0 -> "text"
      [] t = 2 -> "voice"
      [] t = 4 -> "category"
      [] t = 1 -> "dm"
      [] t = 3 -> "groupdm"
      [] t = 5 -> "news"
      [] t = 6 -> "store"
      [] OTHER -> "invalid"

\* the default case calls log.Panicf; the return after it is never reached
formatPermOverwriteType(t) ==
    CASE t = 0 -> "role"
      [] t = 1 -> "member"
      [] OTHER -> Panic

Type(v) ==
    CASE v.kind = "Message" -> "message"
      [] v.kind = "Attachment" -> "attachment"
      [] v.kind = "Reaction" -> "reaction"
      [] v.kind = "Embed" -> "embed"
      [] v.kind = "Guild" -> "guild"
      [] v.kind = "Member" -> "member"
      [] v.kind = "Role" -> "role"
      [] v.kind = "Channel" -> "channel"
      [] v.kind = "PermissionOverwrite" -> "permoverwrite"
      [] v.kind = "Emoji" -> "emoji"
      [] OTHER -> Panic

Timestamp == run

\* the calls of Make that end in a panic instead of returning a row
MakePanics(v) ==
    \/ Type(v) = Panic
    \/ v.kind = "PermissionOverwrite" /\ formatPermOverwriteType(v.type) = Panic

Make(ftype, op, v) ==
    LET row ==
          CASE v.kind = "Message" -> <<v.id, formatMessageType(v.type)>>
            [] v.kind = "Attachment" -> <<v.id, v.mid>>
            [] v.kind = "Reaction" -> <<v.uid, v.mid, v.emoji, 0>>
            [] v.kind = "Embed" -> <<v.mid, v.json>>
            [] v.kind = "Guild" -> <<v.id, v.name>>
            [] v.kind = "Member" -> <<v.uid, v.nick>>
            [] v.kind = "Role" -> <<v.id, v.color>>
            [] v.kind = "Channel" -> <<v.id, formatChannelType(v.type), v.position>>
            [] v.kind = "PermissionOverwrite" ->
                 <<v.id, formatPermOverwriteType(v.type), v.allow>>
            [] v.kind = "Emoji" -> <<v.id, v.name>>
    IN  <<Timestamp, ftype, op, Type(v)>> \o row

Entry(v) == Make("history", "add", v)

\* ------------------------------------------------------------- log files
Tags == {"message", "attachment", "reaction", "embed", "guild", "member",
         "role", "channel", "permoverwrite", "emoji"}

Columns(tag) ==
    CASE tag = "reaction" -> 4
      [] tag = "permoverwrite" -> 3
      [] tag = "channel" -> 3
      [] OTHER -> 2

Fields(row) == SubSeq(row, HID + 1, Len(row))

\* opening with O_TRUNC in place of O_APPEND would empty the file
OpenFileTruncating(rows) == <<>>

\* os.OpenFile with O_CREATE|O_WRONLY|O_APPEND: the rows already there stay
OpenFile(rows) == rows

Write(f, row) == Append(f, row)

WellFormed(row) ==
    /\ Len(row) > HID
    /\ row[HType + 1] \in Tags
    /\ Len(row) = HID + Columns(row[HType + 1])

\* a line cut short before its id column
BadRow == <<0, "history", "add", "role">>

CacheError(rows) == \E k \in DOMAIN rows : ~WellFormed(rows[k])

GuildCache(rows) ==
    LET Key(k) == <<rows[k][HType + 1], rows[k][HID + 1]>>
        Last(key) == CHOOSE k \in DOMAIN rows :
                        /\ Key(k) = key
                        /\ \A j \in DOMAIN rows : Key(j) = key => j <= k
    IN  [key \in {Key(k) : k \in DOMAIN rows} |-> Fields(rows[Last(key)])]

Lookup(c, tag, id) == IF <<tag, id>> \in DOMAIN c THEN c[<<tag, id>>] ELSE Nil

Equals(a, entry) == a = Fields(entry)

MessageIdx(rows) == {k \in DOMAIN rows : rows[k][HType + 1] = "message"}

NotFound(rows) == MessageIdx(rows) = {}

LastMessageID(rows) ==
    LET last == CHOOSE k \in MessageIdx(rows) : \A j \in MessageIdx(rows) : j <= k
    IN  rows[last][HID + 1]

\* ------------------------------------------------------- remote fixtures
\* what d.Guild returns for guild g
Guild(g) ==
    IF g = "g1"
    THEN [kind |-> "Guild", id |-> g, name |-> "one",
          channels |-> <<
            [kind |-> "Channel", id |-> "c1", type |-> 0, position |-> 0,
             overwrites |-> <<[kind |-> "PermissionOverwrite", id |-> "everyone",
                              type |-> 0, allow |-> owAllow["c1"]]>>],
            [kind |-> "Channel", id |-> "c2", type |-> 0, position |-> 1,
             overwrites |-> <<[kind |-> "PermissionOverwrite", id |-> "everyone",
                              type |-> 0, allow |-> owAllow["c2"]]>>]>>,
          roles |-> <<[kind |-> "Role", id |-> "R1", color |-> roleColor]>>,
          emojis |-> <<[kind |-> "Emoji", id |-> "E1", name |-> "smile"]>>]
    ELSE [kind |-> "Guild", id |-> g, name |-> "two",
          channels |-> <<[kind |-> "Channel", id |-> "c3", type |-> 0, position |-> 0,
                         overwrites |-> <<>>]>>,
          roles |-> <<>>,
          emojis |-> <<>>]

NumMembers(g) == IF g = "g1" THEN 2 ELSE 0

Member(n) == [kind |-> "Member", uid |-> n, nick |-> "nick",
              avatar |-> IF n = 1 THEN "hash" ELSE ""]

\* d.GuildMembers(g, after, limit): the next members above the cursor, ascending
GuildMembers(g, aft, limit) ==
    LET hi == IF aft + limit < NumMembers(g) THEN aft + limit ELSE NumMembers(g)
    IN  [k \in 1..(hi - aft) |-> Member(aft + k)]

\* a message as d.ChannelMessages returns it: an ordinary message
Message(id) == [kind |-> "Message", id |-> id, type |-> 0]

Embeds(id) == IF id = 2 THEN <<"{}">> ELSE <<>>
Attachments(id) == IF id = 2 THEN <<"file">> ELSE <<>>
Reactions(id) == IF id = 3 THEN <<[emoji |-> "x", count |-> react.count]>> ELSE <<>>

\* d.ChannelMessages(c, limit, "", after, ""): the next messages above the
\* cursor, newest first; with echo the page starts at the cursor message itself
ChannelMessages(c, limit, aft, echo) ==
    LET lo == IF echo THEN aft ELSE aft + 1
        hi == IF lo + limit - 1 < remoteMsgs[c] THEN lo + limit - 1 ELSE remoteMsgs[c]
    IN  [k \in 1..(hi - lo + 1) |-> hi - k + 1]

\* d.MessageReactions(c, id, emoji, limit): the users that can be enumerated
MessageReactions(limit) ==
    LET n == IF react.users < limit THEN react.users ELSE limit
    IN  [k \in 1..n |-> k]

\* ------------------------------------------------------------------ Init
ReactCases == {[count |-> 1, users |-> 1], [count |-> 3, users |-> 2]}

MsgCap(c) == IF c = "c1" THEN MaxMsg ELSE 1
MsgMin(c) == IF c = "c2" THEN 0 ELSE MsgCap(c) - 1

InitRemote ==
    /\ remoteMsgs \in {m \in [Channels -> 0..MaxMsg] : \A c \in Channels : MsgMin(c) <= m[c] /\ m[c] <= MsgCap(c)}
    /\ roleColor = 0
    /\ owAllow \in {a \in [{"c1", "c2"} -> {0, 1}] : a["c1"] = 0}
    /\ react \in ReactCases

InitFs ==
    /\ \/ /\ dirs = {}
          /\ exists = {}
          /\ files = [f \in Files |-> <<>>]
       \/ /\ dirs = {"g1"}
          /\ exists = {"g1"}
          /\ files = [f \in Files |-> IF f = "g1" THEN <<BadRow>> ELSE <<>>]

InitProcess ==
    /\ run = 1
    /\ fetchedGuilds = {}
    /\ todo = Order
    /\ pc = "idle"
    /\ cur = "c1"
    /\ cache = <<>>
    /\ mafter = 0
    /\ retries = 0
    /\ batch = <<>>
    /\ after = 0
    /\ msgs = <<>>
    /\ i = 0
    /\ work = <<>>
    /\ start = 0
    /\ len0 = 0
    /\ wfailLen = -1

InitObs ==
    /\ snap = files
    /\ faults = 0
    /\ dlFaults = [k \in {"emoji", "avatar", "attachment"} |-> 0]
    /\ kills = 0
    /\ drift = FALSE
    /\ syncs = [g \in Guilds |-> 0]
    /\ cacheFailed = {}
    /\ skipped = {}
    /\ gfail = {}

InitCode == InitRemote /\ InitFs /\ InitProcess /\ InitObs

\* no call of the encoder on its own yet
NoEnc == [v |-> [kind |-> "none"], panicked |-> FALSE, row |-> <<>>]

Init == InitCode /\ staleLeft = 0 /\ wfLeft = 0 /\ enc = NoEnc

InitStale == InitCode /\ staleLeft = MaxStale /\ wfLeft = 0 /\ enc = NoEnc

InitWrite == InitCode /\ staleLeft = 0 /\ wfLeft = MaxWriteFail /\ enc = NoEnc

\* ------------------------------------------------------------------ Pull
\* errors and kills are injected while the budget lasts
CanFail == faults + kills < MaxFaults

Failed(ok) == IF ok THEN faults ELSE faults + 1

DownloadFailed(ok, kind) == IF ok THEN dlFaults ELSE [dlFaults EXCEPT ![kind] = @ + 1]

ResetGuildLocals ==
    /\ cache' = <<>>
    /\ mafter' = 0
    /\ retries' = 0
    /\ batch' = <<>>

ResetChanLocals ==
    /\ after' = 0
    /\ msgs' = <<>>
    /\ i' = 0
    /\ work' = <<>>
    /\ start' = 0
    /\ len0' = 0
    /\ wfailLen' = -1

\* a gate that forgets to record the guild
MarkFetchedNever(set, g) == set

\* line 29: the guild is recorded before its sync is attempted
MarkFetched(set, g) == set \cup {g}

\* falling through to pullGuild with the empty cache instead of returning
OnCacheErrorGoOn == "guild"

\* lines 32-35: a cache that cannot be rebuilt ends this Pull
OnCacheError == "idle"

\* Pull, lines 19-38: mkdir, the guild-once gate and the cache replay
PullStart ==
    LET c == Head(todo)
        g == GuildOf(c)
    IN
    /\ pc = "idle"
    /\ todo # <<>>
    /\ todo' = Tail(todo)
    /\ cur' = c
    /\ \E mkdirOk \in BOOLEAN :
         /\ (~mkdirOk) => (CanFail /\ g \notin dirs)
         /\ faults' = Failed(mkdirOk)
         /\ IF ~mkdirOk
            THEN /\ pc' = "idle"
                 /\ UNCHANGED <<dirs, fetchedGuilds, cache, syncs, cacheFailed, skipped, gfail>>
            ELSE /\ dirs' = dirs \cup {g}
                 /\ IF g \notin fetchedGuilds
                    THEN /\ fetchedGuilds' = MarkFetched(fetchedGuilds, g)
                         /\ IF g \in exists /\ CacheError(files[g])
                            THEN /\ pc' = OnCacheError
                                 /\ cacheFailed' = cacheFailed \cup {g}
                                 /\ skipped' = skipped \cup {c}
                                 /\ UNCHANGED <<cache, syncs, gfail>>
                            ELSE /\ pc' = "guild"
                                 /\ cache' = IF g \in exists THEN GuildCache(files[g]) ELSE <<>>
                                 /\ syncs' = [syncs EXCEPT ![g] = @ + 1]
                                 /\ UNCHANGED <<cacheFailed, skipped, gfail>>
                    ELSE /\ pc' = "cursor"
                         /\ UNCHANGED <<fetchedGuilds, cache, syncs, cacheFailed, skipped, gfail>>
    /\ UNCHANGED <<enc, remote, staleLeft, wfLeft, exists, files, run, mafter, retries, batch,
                   chanLocals, snap, dlFaults, kills, drift>>

\* ------------------------------------------------------------- pullGuild
NeedsWrite(slot, id, entry) == ~Equals(Lookup(cache, slot, id), entry)

\* the rows of a list of candidates that pass change detection, in order
Changed(cands) ==
    LET keep == SelectSeq(cands, LAMBDA e : NeedsWrite(e.slot, e.id, e.row))
    IN  [k \in DOMAIN keep |-> keep[k].row]

\* pullGuild, lines 52-82: open the guild file, fetch the guild, write its row
GuildFetch ==
    LET g == GuildOf(cur) IN
    /\ pc = "guild"
    /\ \E openOk \in BOOLEAN, fetchOk \in BOOLEAN :
         /\ (~openOk \/ ~fetchOk) => CanFail
         /\ (~openOk) => fetchOk
         /\ faults' = Failed(openOk /\ fetchOk)
         /\ IF ~openOk
            THEN /\ pc' = "cursor"
                 /\ ResetGuildLocals
                 /\ UNCHANGED <<exists, files, gfail>>
            ELSE /\ exists' = exists \cup {g}
                 /\ IF ~fetchOk
                    THEN \* guild is nil and line 84 dereferences it
                         /\ pc' = "crashed"
                         /\ gfail' = gfail \cup {g}
                         /\ files' = [files EXCEPT ![g] = OpenFile(@)]
                         /\ UNCHANGED guildLocals
                    ELSE /\ pc' = "loops"
                         /\ files' = [files EXCEPT ![g] =
                               OpenFile(@) \o Changed(<<[slot |-> "guild", id |-> g,
                                                         row |-> Entry(Guild(g))]>>)]
                         /\ UNCHANGED <<guildLocals, gfail>>
    /\ UNCHANGED <<enc, remote, staleLeft, wfLeft, dirs, run, fetchedGuilds, todo, cur,
                   chanLocals, snap, dlFaults, kills, drift, syncs, cacheFailed, skipped>>

RECURSIVE ChannelCands(_)
ChannelCands(chs) ==
    IF chs = <<>> THEN <<>>
    ELSE LET c == Head(chs) IN
         <<[slot |-> "channel", id |-> c.id, row |-> Entry(c)]>>
         \o [k \in DOMAIN c.overwrites |->
               [slot |-> "permoverwrite", id |-> c.overwrites[k].id,
                row |-> Entry(c.overwrites[k])]]
         \o ChannelCands(Tail(chs))

RoleCands(rs) == [k \in DOMAIN rs |-> [slot |-> "role", id |-> rs[k].id, row |-> Entry(rs[k])]]

EmojiCands(es) == [k \in DOMAIN es |-> [slot |-> "emoji", id |-> es[k].id, row |-> Entry(es[k])]]

UserCands(ms) == [k \in DOMAIN ms |-> [slot |-> "user", id |-> ms[k].uid, row |-> Entry(ms[k])]]

\* pullGuild, lines 84-103: channels with their overwrites, then roles
GuildLoops ==
    LET g == GuildOf(cur) IN
    /\ pc = "loops"
    /\ files' = [files EXCEPT ![g] =
          @ \o Changed(ChannelCands(Guild(g).channels) \o RoleCands(Guild(g).roles))]
    /\ pc' = "emoji"
    /\ UNCHANGED <<enc, remote, staleLeft, wfLeft, dirs, exists, run, fetchedGuilds, todo, cur,
                   guildLocals, chanLocals, obs>>

\* pullGuild, lines 105-116: emoji, each after a best-effort download
GuildEmoji ==
    LET g == GuildOf(cur) IN
    /\ pc = "emoji"
    /\ \E dlOk \in BOOLEAN :
         /\ (~dlOk) => (CanFail /\ Guild(g).emojis # <<>>)
         /\ faults' = Failed(dlOk)
         /\ dlFaults' = DownloadFailed(dlOk, "emoji")
    /\ files' = [files EXCEPT ![g] = @ \o Changed(EmojiCands(Guild(g).emojis))]
    /\ mafter' = 0
    /\ pc' = "members"
    /\ UNCHANGED <<enc, remote, staleLeft, wfLeft, dirs, exists, run, fetchedGuilds, todo, cur,
                   cache, retries, batch, chanLocals, snap, kills, drift, syncs,
                   cacheFailed, skipped, gfail>>

\* pullGuild, lines 117-126: request the next member batch
MemberFetch ==
    LET g == GuildOf(cur)
        members == GuildMembers(g, mafter, MemberLimit)
    IN
    /\ pc = "members"
    /\ \E ok \in BOOLEAN :
         /\ (~ok) => CanFail
         /\ faults' = Failed(ok)
         /\ IF ~ok
            THEN \* continue: the same request is issued again
                 /\ retries' = retries + 1
                 /\ UNCHANGED <<pc, cache, mafter, batch>>
            ELSE IF Len(members) = 0
                 THEN pc' = "cursor" /\ ResetGuildLocals
                 ELSE pc' = "batch" /\ batch' = members /\ UNCHANGED <<cache, mafter, retries>>
    /\ UNCHANGED <<enc, remote, staleLeft, wfLeft, fs, run, fetchedGuilds, todo, cur,
                   chanLocals, snap, dlFaults, kills, drift, syncs, cacheFailed, skipped, gfail>>

\* pullGuild, lines 128-144: avatars (best effort) and member rows of a batch
MemberBatch ==
    LET g == GuildOf(cur) IN
    /\ pc = "batch"
    /\ \E dlOk \in BOOLEAN :
         /\ (~dlOk) => (CanFail /\ \E k \in DOMAIN batch : batch[k].avatar # "")
         /\ faults' = Failed(dlOk)
         /\ dlFaults' = DownloadFailed(dlOk, "avatar")
    /\ files' = [files EXCEPT ![g] = @ \o Changed(UserCands(batch))]
    /\ mafter' = batch[Len(batch)].uid
    /\ batch' = <<>>
    /\ pc' = "members"
    /\ UNCHANGED <<enc, remote, staleLeft, wfLeft, dirs, exists, run, fetchedGuilds, todo, cur,
                   cache, retries, chanLocals, snap, kills, drift, syncs,
                   cacheFailed, skipped, gfail>>

\* ----------------------------------------------------------- pullChannel
\* Pull, lines 40-48, and pullChannel, lines 149-155: resolve the cursor,
\* then open the channel file
Cursor ==
    LET last == IF cur \in exists THEN LastMessageID(files[cur]) ELSE 0 IN
    /\ pc = "cursor"
    /\ IF cur \in exists /\ NotFound(files[cur])
       THEN \* LastMessageID fails: "skipping"
            /\ pc' = "idle"
            /\ UNCHANGED <<exists, files, chanLocals, faults>>
       ELSE \E openOk \in BOOLEAN :
              /\ (~openOk) => CanFail
              /\ faults' = Failed(openOk)
              /\ IF ~openOk
                 THEN /\ pc' = "idle"
                      /\ UNCHANGED <<exists, files, chanLocals>>
                 ELSE /\ pc' = "fetch"
                      /\ exists' = exists \cup {cur}
                      /\ files' = [files EXCEPT ![cur] = OpenFile(@)]
                      /\ after' = last
                      /\ start' = last
                      /\ len0' = Len(files[cur])
                      /\ UNCHANGED <<msgs, i, work, wfailLen>>
    /\ UNCHANGED <<enc, remote, staleLeft, wfLeft, dirs, run, fetchedGuilds, todo, cur,
                   guildLocals, snap, dlFaults, kills, drift, syncs, cacheFailed, skipped, gfail>>

\* a cursor taken from the far end of the page, its oldest message
NewCursorOldest(page) == page[Len(page)]

\* line 167: the cursor moves to the first, newest, message of the page
NewCursor(page) == page[1]

\* a loop that walks the page in fetch order, newest message first
PickForward(page, k) == page[Len(page) + 1 - k]

\* lines 170-171: the loop runs from the last index down, oldest message first
Pick(page, k) == page[k]

\* continue in place of break: the loop turns again on an empty page
LoopGoesOn == UNCHANGED <<pc, chanLocals>>

\* lines 163-165: an empty page breaks the loop and pullChannel returns
LoopEnds == pc' = "idle" /\ ResetChanLocals

\* pullChannel, lines 158-167: request a page; an error leaves msgs empty
ChannelFetch ==
    /\ pc = "fetch"
    /\ \E ok \in BOOLEAN, echo \in BOOLEAN :
         /\ echo => (ok /\ staleLeft > 0 /\ after > 0)
         /\ (~ok) => CanFail
         /\ staleLeft' = IF echo THEN staleLeft - 1 ELSE staleLeft
         /\ LET page == IF ok THEN ChannelMessages(cur, PageLimit, after, echo) ELSE <<>> IN
            /\ faults' = Failed(ok)
            /\ IF Len(page) = 0
               THEN LoopEnds
               ELSE /\ pc' = "msg"
                    /\ after' = NewCursor(page)
                    /\ msgs' = page
                    /\ i' = Len(page)
                    /\ UNCHANGED <<work, start, len0, wfailLen>>
    /\ UNCHANGED <<enc, remote, wfLeft, fs, run, fetchedGuilds, todo, cur, guildLocals,
                   snap, dlFaults, kills, drift, syncs, cacheFailed, skipped, gfail>>

\* logformat.Write on the channel file: a write that fails appends nothing
WriteOrFail(wOk, rows, row) == IF wOk THEN Write(rows, row) ELSE rows

\* pullChannel calls logformat.Write as a statement: whatever it returns is
\* dropped and the loop goes on; only the observation records the failure
WriteResult(wOk) ==
    /\ wfLeft' = IF wOk THEN wfLeft ELSE wfLeft - 1
    /\ wfailLen' = IF ~wOk /\ wfailLen < 0 THEN Len(files[cur]) ELSE wfailLen

\* the embeds, attachments and reactions of a message, in the order written
Work(id) ==
    [k \in DOMAIN Embeds(id) |-> [t |-> "embed", v |-> Embeds(id)[k]]]
    \o [k \in DOMAIN Attachments(id) |-> [t |-> "attachment", v |-> Attachments(id)[k]]]
    \o [k \in DOMAIN Reactions(id) |-> [t |-> "reaction", v |-> Reactions(id)[k]]]

\* i-- of the loop at line 170; the page is done when i drops below its first entry
Advance(left) ==
    IF left # <<>>
    THEN pc' = "sub" /\ UNCHANGED <<msgs, i>>
    ELSE IF i > 1
         THEN pc' = "msg" /\ i' = i - 1 /\ UNCHANGED msgs
         ELSE pc' = "fetch" /\ i' = 0 /\ msgs' = <<>>

\* pullChannel, line 171: the message row, written unconditionally
WriteMessage ==
    /\ pc = "msg"
    /\ \E wOk \in BOOLEAN :
         /\ (~wOk) => wfLeft > 0
         /\ WriteResult(wOk)
         /\ files' = [files EXCEPT ![cur] =
               WriteOrFail(wOk, @, Entry(Message(Pick(msgs, i))))]
    /\ work' = Work(Pick(msgs, i))
    /\ Advance(Work(Pick(msgs, i)))
    /\ UNCHANGED <<enc, remote, staleLeft, dirs, exists, run, fetchedGuilds, todo, cur,
                   guildLocals, after, start, len0, obs>>

\* an attachment whose download failed is left out of the log
AttachmentWriteIfDownloaded(dlOk, wOk, rows, row) ==
    IF dlOk THEN WriteOrFail(wOk, rows, row) ELSE rows

\* lines 178-183: a failed download is logged, the row is written either way
AttachmentWrite(dlOk, wOk, rows, row) == WriteOrFail(wOk, rows, row)

\* rows of one reaction, lines 187-212: one per enumerated user, then
\* count-limit rows with the empty user id when count exceeds the limit
ReactionRows(mid, r, users) ==
    LET named == [k \in DOMAIN users |->
                    Entry([kind |-> "Reaction", uid |-> users[k], mid |-> mid,
                           emoji |-> r.emoji])]
        extra == IF r.count > ReactLimit THEN r.count - ReactLimit ELSE 0
        anon == [k \in 1..extra |->
                    Entry([kind |-> "Reaction", uid |-> 0, mid |-> mid,
                           emoji |-> r.emoji])]
    IN  named \o anon

\* pullChannel, lines 173-213: the next embed, attachment or reaction of msgs[i]
WriteSub ==
    LET item == Head(work)
        mid == Pick(msgs, i)
    IN
    /\ pc = "sub"
    /\ \E ok \in BOOLEAN, wOk \in BOOLEAN :
         /\ (~ok) => (CanFail /\ item.t \in {"attachment", "reaction"})
         /\ (~wOk) => (wfLeft > 0 /\ item.t \in {"embed", "attachment"})
         /\ faults' = Failed(ok)
         /\ dlFaults' = DownloadFailed(ok \/ item.t # "attachment", "attachment")
         /\ WriteResult(wOk)
         /\ files' = [files EXCEPT ![cur] =
              CASE item.t = "embed" ->
                     WriteOrFail(wOk, @,
                         Entry([kind |-> "Embed", mid |-> mid, json |-> item.v]))
                [] item.t = "attachment" ->
                     AttachmentWrite(ok, wOk, @,
                         Entry([kind |-> "Attachment", id |-> item.v, mid |-> mid]))
                [] item.t = "reaction" ->
                     @ \o ReactionRows(mid, item.v,
                            IF ok THEN MessageReactions(ReactLimit) ELSE <<>>)]
    /\ work' = Tail(work)
    /\ Advance(Tail(work))
    /\ UNCHANGED <<enc, remote, staleLeft, dirs, exists, run, fetchedGuilds, todo, cur,
                   guildLocals, after, start, len0, snap, kills, drift, syncs,
                   cacheFailed, skipped, gfail>>

\* ------------------------------------------------------------ environment
\* the process is killed in the middle of a channel pull
Interrupt ==
    /\ pc \in {"fetch", "msg", "sub"}
    /\ CanFail
    /\ pc' = "stopped"
    /\ kills' = kills + 1
    /\ UNCHANGED <<enc, remote, staleLeft, wfLeft, fs, run, fetchedGuilds, todo, cur,
                   guildLocals, chanLocals, snap, faults, dlFaults, drift, syncs,
                   cacheFailed, skipped, gfail>>

RunOver == pc \in {"stopped", "crashed"} \/ (pc = "idle" /\ todo = <<>>)

\* between two runs the remote may gain a message or recolour role R1
Drift ==
    \/ UNCHANGED <<remoteMsgs, roleColor>>
    \/ /\ \E c \in Channels :
            /\ remoteMsgs[c] < MsgCap(c)
            /\ remoteMsgs' = [remoteMsgs EXCEPT ![c] = @ + 1]
       /\ UNCHANGED roleColor
    \/ /\ roleColor = 0
       /\ roleColor' = 5
       /\ UNCHANGED remoteMsgs

\* the process is started again: a fresh fetchedGuilds, the same files
NextRun ==
    /\ RunOver
    /\ run < MaxRuns
    /\ run' = run + 1
    /\ Drift
    /\ drift' = (drift \/ remoteMsgs' # remoteMsgs \/ roleColor' # roleColor)
    /\ fetchedGuilds' = {}
    /\ todo' = Order
    /\ pc' = "idle"
    /\ snap' = files
    /\ syncs' = [g \in Guilds |-> 0]
    /\ cacheFailed' = {}
    /\ skipped' = {}
    /\ gfail' = {}
    /\ ResetGuildLocals
    /\ ResetChanLocals
    /\ UNCHANGED <<enc, owAllow, react, staleLeft, wfLeft, fs, cur, faults, dlFaults, kills>>

Next ==
    \/ PullStart
    \/ GuildFetch
    \/ GuildLoops
    \/ GuildEmoji
    \/ MemberFetch
    \/ MemberBatch
    \/ Cursor
    \/ ChannelFetch
    \/ WriteMessage
    \/ WriteSub
    \/ Interrupt
    \/ NextRun

Spec == Init /\ [][Next]_vars

SpecStale == InitStale /\ [][Next]_vars

SpecWrite == InitWrite /\ [][Next]_vars

\* the initial states that differ in what pullChannel reads: the messages of
\* the channels, with clean files and the reaction that overflows the limit
InitLive == Init /\ owAllow["c2"] = 0 /\ exists = {} /\ react.count > 1

\* the thread of control keeps running while it is inside pullChannel
SpecLive ==
    /\ InitLive
    /\ [][Next]_vars
    /\ WF_vars(ChannelFetch)
    /\ WF_vars(WriteMessage)
    /\ WF_vars(WriteSub)

\* --------------------------------------------------- the encoder on its own
\* entities with every sub-enum value up to MaxType, and one value of a type
\* the encoder does not know
EncInputs ==
    {[kind |-> k, id |-> id, type |-> t, position |-> 0, allow |-> 0] :
        k \in {"Message", "Channel", "PermissionOverwrite", "Unsupported"},
        id \in 1..2, t \in 0..MaxType}

\* logentry.Make("history", "add", v): a row, or a panic
Encode ==
    /\ \E v \in EncInputs :
         enc' = [v |-> v,
                 panicked |-> MakePanics(v),
                 row |-> IF MakePanics(v) THEN <<>> ELSE Entry(v)]
    /\ UNCHANGED <<remote, staleLeft, wfLeft, fs, run, fetchedGuilds, todo, pc, cur,
                   guildLocals, chanLocals, obs>>

SpecEncode == Init /\ [][Encode]_vars

\* ================================================================ claims
RunComplete == pc = "idle" /\ todo = <<>>

Undisturbed == faults = 0 /\ kills = 0

IsPrefix(a, b) == Len(a) <= Len(b) /\ SubSeq(b, 1, Len(a)) = a

\* a row without its capture time
Shape(row) == SubSeq(row, HFetchType + 1, Len(row))

Count(rows, shape) == Cardinality({k \in DOMAIN rows : Shape(rows[k]) = shape})

SameRows(a, b) ==
    /\ Len(a) = Len(b)
    /\ \A k \in DOMAIN a : Count(a, Shape(a[k])) = Count(b, Shape(a[k]))

MessageIds(rows) == {rows[k][HID + 1] : k \in MessageIdx(rows)}

\* the rows one pull without errors writes for messages from..remoteMsgs[c]
RECURSIVE ExpectedFrom(_, _)
ExpectedFrom(c, id) ==
    IF id > remoteMsgs[c] THEN <<>>
    ELSE <<Entry(Message(id))>>
         \o [k \in DOMAIN Embeds(id) |->
               Entry([kind |-> "Embed", mid |-> id, json |-> Embeds(id)[k]])]
         \o [k \in DOMAIN Attachments(id) |->
               Entry([kind |-> "Attachment", id |-> Attachments(id)[k], mid |-> id])]
         \o (IF Reactions(id) = <<>> THEN <<>>
             ELSE ReactionRows(id, Reactions(id)[1], MessageReactions(ReactLimit)))
         \o ExpectedFrom(c, id + 1)

Expected(c) == ExpectedFrom(c, 1)

\* every entity the guild sync of g encodes, with the cache slot it consults
AllCands(g) ==
    <<[slot |-> "guild", id |-> g, row |-> Entry(Guild(g))]>>
    \o ChannelCands(Guild(g).channels)
    \o RoleCands(Guild(g).roles)
    \o EmojiCands(Guild(g).emojis)
    \o UserCands(GuildMembers(g, 0, NumMembers(g)))

\* the rows appended to file f since this run started
Appended(f) == SubSeq(files[f], Len(snap[f]) + 1, Len(files[f]))

\* what replaying the guild file as it was before this run's sync yields for
\* the entity type and id of a row
CachedFor(g, row) == Lookup(GuildCache(snap[g]), row[HType + 1], row[HID + 1])

\* C1: a complete second run against an unchanged remote, with no error and
\* no kill in either run, leaves every guild file and channel file exactly
\* as the first run left it.
IdempotentResume ==
    (run >= 2 /\ RunComplete /\ Undisturbed /\ ~drift) => files = snap

\* C2: every step keeps each log file that exists and keeps the rows it
\* holds as a prefix of the rows it holds afterwards.
AppendOnly ==
    [][\A f \in Files : /\ IsPrefix(files[f], files'[f])
                        /\ f \in exists => f \in exists']_vars

AppendOnlyWitness ==
    /\ run = 2
    /\ faults > 0
    /\ snap["c1"] # <<>>
    /\ Len(files["c1"]) > Len(snap["c1"])
    /\ Len(files["g1"]) > Len(snap["g1"])

\* C3: in every channel file the ids of the message rows strictly increase
\* in file order, over all pages and all resumed runs.
AscendingMessages ==
    \A c \in Channels : \A j, k \in MessageIdx(files[c]) :
        j < k => files[c][j][HID + 1] < files[c][k][HID + 1]

AscendingWitness ==
    /\ run = 2
    /\ MessageIdx(snap["c1"]) # {}
    /\ MessageIds(files["c1"]) = 1..MaxMsg
    /\ MessageIds(snap["c1"]) # MessageIds(files["c1"])

\* C4: during a guild sync a row is appended to the guild file if and only
\* if its fields differ from the row that replaying the guild file before
\* the sync yields for that entity type and id (an absent id differs).
ChangeDetectionGate ==
    \A g \in Guilds :
      ~CacheError(snap[g]) =>
        /\ \A k \in DOMAIN Appended(g) :
              CachedFor(g, Appended(g)[k]) # Fields(Appended(g)[k])
        /\ (RunComplete /\ Undisturbed) =>
              \A k \in DOMAIN AllCands(g) :
                 LET row == AllCands(g)[k].row IN
                 CachedFor(g, row) # Fields(row) =>
                    \E j \in DOMAIN Appended(g) : Shape(Appended(g)[j]) = Shape(row)

\* C5: within one run pullGuild is started at most once per guild, and a
\* Pull for a channel of a guild already recorded goes straight to cursor
\* resolution.
GuildOnceGate ==
    [][/\ \A g \in Guilds : syncs'[g] <= 1
       /\ (pc = "idle" /\ todo # <<>> /\ todo' # todo
             /\ GuildOf(Head(todo)) \in fetchedGuilds) => pc' = "cursor"]_vars

GuildOnceWitness ==
    /\ cur = "c2"
    /\ pc = "cursor"
    /\ syncs["g1"] = 1
    /\ syncs["g2"] = 1

\* C6: a resumed channel pull appends no message row whose id is at or
\* below the cursor it resumed from, whatever ids the fetched pages hold.
NoReEmission ==
    pc \in {"fetch", "msg", "sub"} =>
        \A k \in (len0 + 1)..Len(files[cur]) :
            files[cur][k][HType + 1] = "message" => files[cur][k][HID + 1] > start

\* C7: after a pull that was stopped once some message row was written, a
\* complete later run against the same remote leaves in the channel file
\* the same multiset of rows as one uninterrupted pull writes.
ResumableAfterInterruption ==
    (run >= 2 /\ RunComplete /\ faults = 0 /\ ~drift) =>
        \A c \in Channels :
            MessageIdx(snap[c]) # {} => SameRows(files[c], Expected(c))

\* C8: a channel whose file exists with no message row is pulled from the
\* beginning, so after a complete undisturbed run the file holds every
\* remote message of the channel.
EmptyFilePulledFromStart ==
    (RunComplete /\ Undisturbed) =>
        \A c \in Channels :
            (c \in exists /\ NotFound(snap[c])) =>
                MessageIds(files[c]) = 1..remoteMsgs[c]

\* C9: a failed guild metadata fetch writes no row to the guild file and
\* does not end the process: the Pull goes on to its channel.
GuildFetchFailureDegraded ==
    \A g \in gfail : pc # "crashed" /\ files[g] = snap[g]

\* C10: once replaying a guild file has failed, no row is appended to that
\* guild file for the rest of the run, no sync is started for the guild,
\* and the Pull that hit the failure appends nothing to its channel file.
CacheFailureSkips ==
    [][/\ \A g \in cacheFailed : files'[g] = files[g]
       /\ \A g \in cacheFailed' : syncs'[g] = 0
       /\ \A c \in skipped : files'[c] = files[c]]_vars

CacheFailureWitness ==
    /\ cacheFailed = {"g1"}
    /\ skipped = {"c1"}
    /\ cur = "c2"
    /\ pc = "msg"

\* C11: once a member batch request has failed, pullGuild issues no further
\* member request in that guild sync: the failure ends the sync.
NoAutomaticRetry ==
    [][(pc = "members" /\ retries > 0)
          => (pc' = "members" /\ batch' = batch /\ faults' = faults)]_vars

\* C14: after a complete guild sync with no error, replaying the guild file
\* and encoding the same remote entities again finds every entity equal to
\* its cache slot, the overwrites of two channels that share an id included.
ReplayEquivalence ==
    (RunComplete /\ Undisturbed)
        => \A g \in Guilds :
              (syncs[g] = 1 /\ g \notin cacheFailed)
                 => \A k \in DOMAIN AllCands(g) :
                       Equals(Lookup(GuildCache(files[g]), AllCands(g)[k].slot,
                                     AllCands(g)[k].id),
                              AllCands(g)[k].row)

\* C16: a guild sync appends no member row whose fields equal the fields
\* that replaying the member's previously written row yields.
MemberRewalkNoDuplicates ==
    \A g \in Guilds : \A k \in DOMAIN Appended(g) :
        Appended(g)[k][HType + 1] = "member"
            => ~Equals(CachedFor(g, Appended(g)[k]), Appended(g)[k])

\* C17: a guild whose metadata fetch failed in this run is not recorded in
\* fetchedGuilds, so a later Pull of the run attempts its sync again.
GateOpenAfterFailedSync == \A g \in gfail : g \notin fetchedGuilds

MaxId(ids) == CHOOSE m \in ids : \A n \in ids : n <= m

\* ids of the message rows this pullChannel call has appended so far
WrittenIds == MessageIds(SubSeq(files[cur], len0 + 1, Len(files[cur])))

\* C18: while a page is written the cursor is the largest id of that page;
\* the cursor never decreases within a pull and grows with every non-empty
\* page; each page is requested with the cursor the previous page left; and
\* between pages the cursor is the largest message id the pull has written,
\* or the cursor it started with when it has written none.
CursorMonotonic ==
    [][/\ pc' \in {"msg", "sub"}
            => after' = MaxId({msgs'[k] : k \in DOMAIN msgs'})
       /\ (pc \in {"fetch", "msg", "sub"} /\ pc' \in {"fetch", "msg", "sub"})
            => after' >= after
       /\ (pc = "fetch" /\ pc' = "msg")
            => /\ after' > after
               /\ msgs' = ChannelMessages(cur, PageLimit, after, FALSE)
       /\ pc' = "fetch"
            => after' = IF WrittenIds' = {} THEN start' ELSE MaxId(WrittenIds')]_vars

\* the pull has written two pages and stands before its third request
CursorWitness ==
    /\ pc = "fetch"
    /\ cur = "c1"
    /\ after = MaxMsg
    /\ Len(files[cur]) > len0 + PageLimit

DlTotal == dlFaults["emoji"] + dlFaults["avatar"] + dlFaults["attachment"]

\* message m of channel c is the one pullChannel is writing the sub-rows of
InProgress(c, m) == cur = c /\ pc = "sub" /\ Pick(msgs, i) = m

HasRow(rows, entry) == \E k \in DOMAIN rows : Shape(rows[k]) = Shape(entry)

\* C13: when the only errors so far are failed media downloads, the process
\* has not crashed, every message row written is followed by the row of each
\* of its attachments, and a complete run has appended the row of every
\* emoji and member that change detection lets through.
MediaFailureKeepsRows ==
    (kills = 0 /\ faults = DlTotal)
      => /\ pc # "crashed"
         /\ \A c \in Channels : \A m \in MessageIds(files[c]) :
               \A k \in DOMAIN Attachments(m) :
                  \/ InProgress(c, m)
                  \/ HasRow(files[c], Entry([kind |-> "Attachment",
                                             id |-> Attachments(m)[k], mid |-> m]))
         /\ RunComplete
              => \A g \in Guilds : syncs[g] = 1 =>
                   LET cands == EmojiCands(Guild(g).emojis)
                                  \o UserCands(GuildMembers(g, 0, NumMembers(g)))
                   IN  \A k \in DOMAIN cands :
                          ~Equals(Lookup(GuildCache(snap[g]), cands[k].slot, cands[k].id),
                                  cands[k].row)
                             => \E j \in DOMAIN Appended(g) : Appended(g)[j] = cands[k].row

\* the download of the attachment of message 2 failed and the run completed
MediaFailureWitness ==
    /\ dlFaults["attachment"] = 1
    /\ RunComplete
    /\ HasRow(files["c1"], Entry([kind |-> "Attachment", id |-> "file", mid |-> 2]))

\* rows of file c that log a reaction to message m
ReactionIdx(c, m) ==
    {k \in DOMAIN files[c] : /\ files[c][k][HType + 1] = "reaction"
                             /\ files[c][k][HID + 2] = m}

\* C15: once the reactions of a message are written, the number of reaction
\* rows for the message and emoji equals the reported count whenever that
\* count exceeds the number of rows that name a user.
ReactionCountMatches ==
    kills = 0
      => \A c \in Channels : \A m \in MessageIds(files[c]) :
            \A r \in DOMAIN Reactions(m) :
               LET named == {k \in ReactionIdx(c, m) : files[c][k][HID + 1] # 0}
               IN  (~InProgress(c, m) /\ Reactions(m)[r].count > Cardinality(named))
                      => Cardinality(ReactionIdx(c, m)) = Reactions(m)[r].count

\* C12: once the write of a row has failed, the channel pull appends no
\* further row to the channel file and requests no further page.
WriteFailureStops ==
    [][wfailLen >= 0 => (files'[cur] = files[cur] /\ pc' # "msg")]_vars

MessageTypes == {0, 1, 2, 3, 4, 5, 6, 7, 19, 20}
ChannelTypes == 0..6
PermOverwriteTypes == {0, 1}

\* C19: encoding a channel, a message or a permission overwrite whose
\* sub-enum value is not a known one returns a row that carries the sentinel
\* ("invalid", or "unknown-N" for a message) in the type column, and Make
\* panics only for an entity of an unsupported type.
UnknownEnumDegrades ==
    /\ (enc.v.kind = "Channel" /\ enc.v.type \notin ChannelTypes)
          => (~enc.panicked /\ enc.row[HID + 2] = "invalid")
    /\ (enc.v.kind = "Message" /\ enc.v.type \notin MessageTypes)
          => (~enc.panicked /\ enc.row[HID + 2] = "unknown-" \o ToString(enc.v.type))
    /\ (enc.v.kind = "PermissionOverwrite" /\ enc.v.type \notin PermOverwriteTypes)
          => (~enc.panicked /\ enc.row[HID + 2] = "invalid")
    /\ enc.panicked => enc.v.kind = "Unsupported"

InPullChannel == pc \in {"fetch", "msg", "sub"}

\* C20: a message pull that has started ends: pullChannel returns to the
\* caller (or the process is stopped), and the step that ends it keeps
\* every row the channel file held.
PullTerminates ==
    /\ InPullChannel ~> (pc \in {"idle", "stopped"})
    /\ [][(InPullChannel /\ ~InPullChannel') => IsPrefix(files[cur], files'[cur])]_vars

\* the pull of c1 has returned after writing every message of the channel
PullTerminatesWitness ==
    /\ pc = "idle"
    /\ cur = "c1"
    /\ kills = 0
    /\ MessageIds(files["c1"]) = 1..MaxMsg

====
